---------------------------- MODULE Spec2Model ----------------------------
(***************************************************************************)
(* Model of the text-to-video application (src/text-to-video-app):         *)
(* generate_video (app.py) run by concurrent request threads, the bounded  *)
(* job queue, ModelLoader.load_with_fallback, VideoProcessor,              *)
(* ErrorHandler, InputValidator, QueueManager and StorageManager           *)
(* (utils.py).                                                             *)
(***************************************************************************)
EXTENDS Integers, Sequences, FiniteSets, TLC

(***************************************************************************)
(* Bounds of the model.                                                    *)
(***************************************************************************)
\* queue.Queue(maxsize=50) of app.py:39, scaled down: the queue holds at most
\* QueueCapacity jobs.
QueueCapacity == 2
\* generate_video is called at most MaxCalls times in a behaviour.
MaxCalls == 3
\* time.time() advances at most MaxClock ticks (one tick = 1 ms).
MaxClock == 1

\* time.time() as cleanup_old_files reads it is at most MaxDay days.
MaxDay == 2
\* cleanup_old_files is called with max_age_days in 1..MaxAgeArg and max_files
\* in 1..MaxFilesArg (the defaults are 7 and 50, utils.py:27-28).
MaxAgeArg == 1
MaxFilesArg == 2
\* MAX_FILES of utils.py:28 (50 by default, set by the environment), scaled
\* down: generate_video's cleanup keeps at most MAX_FILES entries.
MAX_FILES == 1
\* get_safe_temp_path is called at most MaxPaths times in a behaviour.
MaxPaths == 3

\* The request threads that run generate_video concurrently.
Threads == {"w1", "w2"}

(***************************************************************************)
(* Program constants.                                                      *)
(***************************************************************************)
max_prompt_length == 1000
max_duration == 60
max_scene_count == 10
VramThreshold == 8
MAX_FILE_AGE_DAYS == 7

VARIABLES
    job_queue,           \* app.job_queue: the pending GenerationJob objects, oldest first
    active_jobs,         \* app.active_jobs: the job ids tracked as active
    error_log,           \* error_handler.error_log
    raised_by,           \* history: for each record of error_log, the stage whose failure it logs
    current_model,       \* model_loader.current_model
    current_model_name,  \* model_loader.current_model_name
    partial_output,      \* video_processor.partial_output
    DEBUG_MODE,          \* utils.DEBUG_MODE, fixed at import
    job_lock,            \* app.job_lock: the thread that holds it, or Unlocked
    clock,               \* time.time(), in ticks
    pc,                  \* per thread: where it is in generate_video
    req,                 \* per thread: the arguments of the call in progress
    job,                 \* per thread: the GenerationJob it created (obj = object identity)
    ld,                  \* per thread: the frame of its load_with_fallback call
    model_name,          \* per thread: the tier name load_with_fallback returned
    video_path,          \* per thread: the path VideoProcessor.generate returned
    exc,                 \* per thread: the exception in flight
    ret,                 \* per thread: what its last generate_video call returned
    invoked,             \* per thread: the collaborators the call in progress has invoked
    ncalls,              \* per thread: the number of generate_video calls it has begun
    admitted,            \* history: the objects put on the queue, in the order the puts took effect
    dequeued,            \* history: the objects taken off the queue, in order
    outcomes,            \* history: admission outcomes of valid submissions, in order
    ref_load,            \* history: the frame of one earlier load_with_fallback call
    queue_manager_active_jobs, \* queue_manager.active_jobs: job id -> its entry
    cancel_ret,          \* what the last cancel_job call returned
    validate_ret,        \* the last InputValidator.validate call: arguments and result
    output_dir,          \* the entries of OUTPUT_DIR, by name
    listing,             \* the order in which OUTPUT_DIR enumerates its entries
    temp_dir,            \* the names of the files of TEMP_DIR
    safe_paths,          \* history: the paths get_safe_temp_path has returned, in order
    storage_now,         \* time.time() as cleanup_old_files reads it, in days
    last_cleanup         \* history: the last cleanup_old_files run

shared == <<job_queue, active_jobs, error_log, raised_by, current_model,
            current_model_name,
            partial_output, DEBUG_MODE, job_lock, clock>>
locals == <<pc, req, job, ld, model_name, video_path, exc, ret, invoked>>
history == <<ncalls, admitted, dequeued, outcomes, ref_load>>
managers == <<queue_manager_active_jobs, cancel_ret, validate_ret>>
storage == <<output_dir, listing, temp_dir, safe_paths, storage_now, last_cleanup>>
vars == <<shared, locals, history, managers, storage>>

(***************************************************************************)
(* Strings: a string is a sequence of one-character strings.               *)
(***************************************************************************)
Digits == <<"0", "1", "2", "3", "4", "5", "6", "7", "8", "9">>

IsDigit(c) == \E i \in 1..10 : Digits[i] = c

DigitVal(c) == (CHOOSE i \in 1..10 : Digits[i] = c) - 1

RECURSIVE SplitAcc(_, _, _)
SplitAcc(s, sep, cur) ==
    IF s = <<>> THEN <<cur>>
    ELSE IF Head(s) = sep THEN <<cur>> \o SplitAcc(Tail(s), sep, <<>>)
    ELSE SplitAcc(Tail(s), sep, Append(cur, Head(s)))

\* str.split(sep) for a one-character separator
Split(s, sep) == SplitAcc(s, sep, <<>>)

RECURSIVE StripLeft(_)
StripLeft(s) == IF s # <<>> /\ Head(s) = " " THEN StripLeft(Tail(s)) ELSE s

RECURSIVE StripRight(_)
StripRight(s) ==
    IF s # <<>> /\ s[Len(s)] = " " THEN StripRight(SubSeq(s, 1, Len(s) - 1)) ELSE s

\* str.strip()
Strip(s) == StripRight(StripLeft(s))

RECURSIVE DigitsValue(_, _)
DigitsValue(s, acc) ==
    IF s = <<>> THEN acc ELSE DigitsValue(Tail(s), 10 * acc + DigitVal(Head(s)))

AllDigits(s) == s # <<>> /\ \A i \in 1..Len(s) : IsDigit(s[i])

\* int(text): surrounding blanks and one sign are accepted; anything else raises
\* ValueError (ok = FALSE).
ParseInt(text) ==
    LET s == Strip(text)
        signed == s # <<>> /\ Head(s) \in {"-", "+"}
        body == IF signed THEN Tail(s) ELSE s
    IN  IF AllDigits(body)
        THEN [ok |-> TRUE,
              val |-> IF signed /\ Head(s) = "-"
                      THEN 0 - DigitsValue(body, 0) ELSE DigitsValue(body, 0)]
        ELSE [ok |-> FALSE, val |-> 0]

RECURSIVE JoinSep(_, _)
\* sep.join(parts)
JoinSep(parts, sep) ==
    IF parts = <<>> THEN <<>>
    ELSE IF Len(parts) = 1 THEN <<parts[1]>>
    ELSE <<parts[1], sep>> \o JoinSep(Tail(parts), sep)

(***************************************************************************)
(* InputValidator.validate                                                 *)
(***************************************************************************)
\* A prompt is given by its length and whether it holds only whitespace.
PromptErrors(prompt) ==
    IF prompt.len = 0 \/ prompt.blank THEN <<"Prompt cannot be empty">>
    ELSE IF prompt.len > max_prompt_length THEN <<"Prompt too long">>
    ELSE <<>>

\* DurationErrors with a fault: the maximum itself is refused.
DurationErrorsStrict(duration) ==
    IF duration <= 0 THEN <<"Duration must be positive">>
    ELSE IF duration >= max_duration THEN <<"Duration exceeds maximum">>
    ELSE <<>>

DurationErrors(duration) ==
    IF duration <= 0 THEN <<"Duration must be positive">>
    ELSE IF duration > max_duration THEN <<"Duration exceeds maximum">>
    ELSE <<>>

SceneErrors(scene_count) ==
    IF scene_count < 1 THEN <<"Scene count must be at least 1">>
    ELSE IF scene_count > max_scene_count THEN <<"Scene count exceeds maximum">>
    ELSE <<>>

\* width, height = map(int, resolution.split("x"))
ParseResolution(resolution) ==
    LET parts == Split(resolution, "x")
    IN  IF Len(parts) # 2 THEN [ok |-> FALSE, w |-> 0, h |-> 0]
        ELSE LET w == ParseInt(parts[1])
                 h == ParseInt(parts[2])
             IN  IF w.ok /\ h.ok THEN [ok |-> TRUE, w |-> w.val, h |-> h.val]
                 ELSE [ok |-> FALSE, w |-> 0, h |-> 0]

ResolutionErrors(resolution) ==
    LET p == ParseResolution(resolution)
    IN  IF ~p.ok THEN <<"Invalid resolution format (expected WxH)">>
        ELSE IF p.w <= 0 \/ p.h <= 0 THEN <<"Invalid resolution">>
        ELSE <<>>

\* Python's None where a text is expected: the text without parts.
None == <<>>

\* validate with a fault: the checks stop at the first complaint.
validate_first_error(prompt, duration, scene_count, resolution) ==
    LET errors == PromptErrors(prompt) \o DurationErrors(duration)
                  \o SceneErrors(scene_count) \o ResolutionErrors(resolution)
    IN  [valid |-> Len(errors) = 0,
         error |-> IF errors # <<>> THEN <<errors[1]>> ELSE None]

validate(prompt, duration, scene_count, resolution) ==
    LET errors == PromptErrors(prompt) \o DurationErrors(duration)
                  \o SceneErrors(scene_count) \o ResolutionErrors(resolution)
    IN  [valid |-> Len(errors) = 0,
         error |-> IF errors # <<>> THEN JoinSep(errors, "; ") ELSE None]

(***************************************************************************)
(* ErrorHandler                                                            *)
(***************************************************************************)
\* The record log_error appends (the timestamp and traceback text are left out).
ErrorRecord(error, context) ==
    [context |-> context, error_type |-> error.type, error_message |-> error.msg]

log_error(log, error, context) == Append(log, ErrorRecord(error, context))

\* format_user_error: the technical block is rendered only when show_technical
\* is set and the details are non-empty.
format_user_error(title, message, show_technical, technical_details) ==
    [title |-> title, message |-> message, tier |-> "",
     technical |-> IF show_technical /\ technical_details # <<>>
                   THEN technical_details ELSE <<>>]

(***************************************************************************)
(* The bounded queue (queue.Queue(maxsize)): every operation runs under    *)
(* the queue's own mutex, so each is one step.                             *)
(***************************************************************************)
\* job_queue.full()
full(q) == Len(q) >= QueueCapacity

\* Variants of put_nowait with a fault: no capacity limit; the limit compared
\* with > instead of >=; the item added at the front.
put_unbounded(q, item) == [ok |-> TRUE, q |-> Append(q, item)]

put_nowait_offbyone(q, item) ==
    IF Len(q) > QueueCapacity THEN [ok |-> FALSE, q |-> q]
    ELSE [ok |-> TRUE, q |-> Append(q, item)]

put_nowait_front(q, item) ==
    IF Len(q) >= QueueCapacity THEN [ok |-> FALSE, q |-> q]
    ELSE [ok |-> TRUE, q |-> <<item>> \o q]

\* job_queue.put_nowait(item): raises queue.Full (ok = FALSE) when there is no
\* free slot, never waits.
put_nowait(q, item) ==
    IF Len(q) >= QueueCapacity THEN [ok |-> FALSE, q |-> q]
    ELSE [ok |-> TRUE, q |-> Append(q, item)]

\* job_queue.get(): the oldest item and the rest
get(q) == [item |-> Head(q), q |-> Tail(q)]

(***************************************************************************)
(* ModelLoader                                                             *)
(***************************************************************************)
fallback_chain == <<"open-sora", "cogvideox-5b", "cogvideox-2b", "svd">>

\* What the resource probe (torch.cuda) answers during one load call.
Probes ==
    {[gpu |-> FALSE, vram_ok |-> FALSE, free |-> 0],
     [gpu |-> TRUE, vram_ok |-> FALSE, free |-> 0]}
    \cup {[gpu |-> TRUE, vram_ok |-> TRUE, free |-> f] :
            f \in {VramThreshold - 1, VramThreshold}}

_check_gpu_available(probe) == probe.gpu

\* (has_vram, free_vram); a failing query is answered (False, 0.0)
_check_vram(probe) ==
    IF ~_check_gpu_available(probe) THEN [has |-> FALSE, free |-> 0]
    ELSE IF ~probe.vram_ok THEN [has |-> FALSE, free |-> 0]
    ELSE [has |-> TRUE, free |-> probe.free]

LoadOk(name, degraded, cpu) ==
    [ok |-> TRUE, name |-> name, err |-> <<>>, degraded |-> degraded, cpu |-> cpu]

LoadRaise(msg) ==
    [ok |-> FALSE, name |-> "", err |-> <<msg>>, degraded |-> FALSE, cpu |-> FALSE]

\* _load_open_sora with a fault: low VRAM makes the tier give up.
_load_open_sora_strict(probe, fault) ==
    IF ~_check_gpu_available(probe) THEN LoadRaise("GPU not available for Open-Sora")
    ELSE LET v == _check_vram(probe)
         IN  IF v.has /\ v.free < VramThreshold THEN LoadRaise("Insufficient VRAM")
             ELSE IF fault THEN LoadRaise("Open-Sora loading raised")
             ELSE LoadOk("open-sora", FALSE, FALSE)

\* fault: the tier's loading itself raises (its try body after the checks).
_load_open_sora(probe, fault) ==
    IF ~_check_gpu_available(probe) THEN LoadRaise("GPU not available for Open-Sora")
    ELSE LET v == _check_vram(probe)
             low == v.has /\ v.free < VramThreshold   \* 4-bit quantization branch
         IN  IF fault THEN LoadRaise("Open-Sora loading raised")
             ELSE LoadOk("open-sora", low, FALSE)

_load_cogvideox_5b(probe, fault) ==
    IF ~_check_gpu_available(probe) THEN LoadRaise("GPU not available")
    ELSE IF fault THEN LoadRaise("CogVideoX-5B loading raised")
    ELSE LoadOk("cogvideox-5b", FALSE, FALSE)

\* _load_cogvideox_2b with a fault: it insists on a GPU as the larger tiers do.
_load_cogvideox_2b_gpu(probe, fault) ==
    IF ~_check_gpu_available(probe) THEN LoadRaise("GPU not available")
    ELSE IF fault THEN LoadRaise("CogVideoX-2B loading raised")
    ELSE LoadOk("cogvideox-2b", FALSE, FALSE)

_load_cogvideox_2b(probe, fault) ==
    IF fault THEN LoadRaise("CogVideoX-2B loading raised")
    ELSE LoadOk("cogvideox-2b", FALSE, ~_check_gpu_available(probe))

_load_svd(probe, fault) ==
    IF fault THEN LoadRaise("SVD loading raised")
    ELSE LoadOk("svd", FALSE, FALSE)

\* The load function the chain pairs with a tier name.
load_func(model_name_, probe, fault) ==
    CASE model_name_ = "open-sora" -> _load_open_sora(probe, fault)
      [] model_name_ = "cogvideox-5b" -> _load_cogvideox_5b(probe, fault)
      [] model_name_ = "cogvideox-2b" -> _load_cogvideox_2b(probe, fault)
      [] model_name_ = "svd" -> _load_svd(probe, fault)

\* NextTier with a fault: a tier is passed over.
NextTierSkip(i) == i + 2

\* The tier the loop goes on to after tier i raised.
NextTier(i) == i + 1

\* AggregatedFailure with a fault: the underlying error is left out.
AggregatedFailureBare(last_error) ==
    [type |-> "RuntimeError", msg |-> <<"All model loading attempts failed.">>]

\* The RuntimeError raised when every tier failed.
AggregatedFailure(last_error) ==
    [type |-> "RuntimeError",
     msg |-> <<"All model loading attempts failed. Last error: ">> \o last_error]

\* The loop of load_with_fallback from tier i on: each tier's load function is
\* called in turn (faults[j]: the loading of tier j raises) until one returns.
\* attempts lists the calls made, last_error is the error of the last failure.
RECURSIVE RunChain(_, _, _, _, _)
RunChain(i, probe, faults, attempts, last_error) ==
    IF i > Len(fallback_chain)
    THEN [ok |-> FALSE, name |-> "", attempts |-> attempts, last_error |-> last_error]
    ELSE LET r == load_func(fallback_chain[i], probe, faults[i])
             tried == Append(attempts,
                             [tier |-> fallback_chain[i], ok |-> r.ok, err |-> r.err,
                              degraded |-> r.degraded, cpu |-> r.cpu,
                              fault |-> faults[i]])
         IN  IF r.ok
             THEN [ok |-> TRUE, name |-> r.name, attempts |-> tried,
                   last_error |-> last_error]
             ELSE RunChain(NextTier(i), probe, faults, tried, r.err)

NoProbe == [gpu |-> FALSE, vram_ok |-> FALSE, free |-> 0]
\* The frame of a load_with_fallback call: what the probe answered, the calls
\* made, and the loader's fields as they were when the call began.
NoLoad == [probe |-> NoProbe, attempts |-> <<>>, last_error |-> <<>>,
           prior_model |-> "", prior_name |-> "", done |-> FALSE]

(***************************************************************************)
(* Values                                                                  *)
(***************************************************************************)
\* A job id is a prefix and a number: generate_video names its jobs
\* f"job_{int(time.time() * 1000)}" (app.py:95).
JobId(ms) == <<"job_", ms>>
\* The job ids the tests use: "job1", "job2" (test_app.py:235, 261).
JobIds == {<<"job", 1>>, <<"job", 2>>}
NoJobId == <<"", 0>>
NoPath == [kind |-> "none", ts |-> 0]
NoExc == [type |-> "", msg |-> <<>>]
NoJob == [obj |-> 0, job_id |-> NoJobId]
NoRet == [video |-> NoPath, audio |-> NoPath,
          status |-> [title |-> "", message |-> <<>>, tier |-> "", technical |-> <<>>]]

\* Requests a caller may submit: a valid one, the same with a music file, and
\* two that break validation rules.
ValidRequest ==
    [prompt |-> [len |-> 12, blank |-> FALSE], duration |-> 5, scene_count |-> 1,
     resolution |-> <<"5", "1", "2", "x", "5", "1", "2">>, music |-> FALSE]

MusicRequest == [ValidRequest EXCEPT !.music = TRUE]

InvalidRequests ==
    {[ValidRequest EXCEPT !.prompt = [len |-> 0, blank |-> FALSE]],
     [ValidRequest EXCEPT !.duration = 65, !.resolution = <<"b", "a", "d">>]}

NoReq == [ValidRequest EXCEPT !.prompt = [len |-> 0, blank |-> TRUE]]

\* A dict without keys.
EmptyDict == [k \in {} |-> 0]
NoCancel == [job_id |-> NoJobId, found |-> FALSE, message |-> ""]
NoValidate == [called |-> FALSE]

\* The names of the entries of OUTPUT_DIR.
Names == {"a", "b", "c"}
NoEntry == [kind |-> "absent", mtime |-> 0]
NoCleanup == [ran |-> FALSE]
\* job_lock when no thread holds it.
Unlocked == "unlocked"

(***************************************************************************)
(* Initial state: the module-level objects of app.py as constructed.       *)
(***************************************************************************)
Init ==
    /\ job_queue = <<>>
    /\ active_jobs = {}
    /\ error_log = <<>>
    /\ raised_by = <<>>
    /\ current_model = "none"
    /\ current_model_name = "none"
    /\ partial_output = NoPath
    /\ DEBUG_MODE \in BOOLEAN
    /\ job_lock = Unlocked
    /\ clock = 0
    /\ pc = [t \in Threads |-> "idle"]
    /\ req = [t \in Threads |-> NoReq]
    /\ job = [t \in Threads |-> NoJob]
    /\ ld = [t \in Threads |-> NoLoad]
    /\ model_name = [t \in Threads |-> ""]
    /\ video_path = [t \in Threads |-> NoPath]
    /\ exc = [t \in Threads |-> NoExc]
    /\ ret = [t \in Threads |-> NoRet]
    /\ invoked = [t \in Threads |-> {}]
    /\ ncalls = [t \in Threads |-> 0]
    /\ admitted = <<>>
    /\ dequeued = <<>>
    /\ outcomes = <<>>
    /\ ref_load = NoLoad
    /\ queue_manager_active_jobs = EmptyDict
    /\ cancel_ret = NoCancel
    /\ validate_ret = NoValidate
    /\ output_dir = [n \in Names |-> NoEntry]
    /\ listing = <<>>
    /\ temp_dir = {}
    /\ safe_paths = <<>>
    /\ storage_now = 0
    /\ last_cleanup = NoCleanup

(***************************************************************************)
(* StorageManager.cleanup_old_files, utils.py:403-440.  Times are in days. *)
(* A directory enumerates its entries in an order of its own, which stays  *)
(* as it is while no entry is added or removed.                            *)
(***************************************************************************)
Days == 0..MaxDay

\* The entry of OUTPUT_DIR a path returned by VideoProcessor refers to:
\* f"video_{int(time.time())}.mp4" (utils.py:251) and
\* f"video_with_music_{int(time.time())}.mp4" (utils.py:284).  Paths made in
\* the same second are the same entry.
FileName(path) ==
    IF path.kind = "video"
    THEN <<"video_0", "video_1", "video_2">>[path.ts + 1]
    ELSE <<"video_with_music_0", "video_with_music_1", "video_with_music_2">>[path.ts + 1]

\* output_path.touch() (utils.py:262) and shutil.copy (utils.py:286): the
\* file n is there afterwards, last modified at time now.
Written(dir, n, now) ==
    [m \in DOMAIN dir \cup {n} |-> IF m = n THEN [kind |-> "file", mtime |-> now] ELSE dir[m]]

Exists(dir, n) == n \in DOMAIN dir /\ dir[n].kind # "absent"

Present(dir) == {n \in DOMAIN dir : dir[n].kind # "absent"}

\* The orders in which the entries S can be enumerated.
Orders(S) ==
    {o \in [1..Cardinality(S) -> S] : \A i, j \in 1..Cardinality(S) : i # j => o[i] # o[j]}

\* The enumeration after a change of the directory from old to new.
Relisted(order, old, new) ==
    IF Present(new) = Present(old) THEN {order} ELSE Orders(Present(new))

Without(dir, n) == [dir EXCEPT ![n] = NoEntry]

\* What happens to an entry while cleanup runs: nothing; its unlink is denied;
\* another process removes it between the listing and the stat of the age
\* pass, or of the count pass, or just before its unlink.
FaultKinds == {"none", "denied", "gone_age_stat", "gone_count_stat", "gone_unlink"}
NoFault == [n \in Names |-> "none"]
\* At most one entry is disturbed in a run.
OneFault ==
    {NoFault} \cup {[NoFault EXCEPT ![n] = k] : n \in Names, k \in FaultKinds \ {"none"}}

\* The age test with a fault: a file exactly max_age_days old is removed too.
ExpiredInclusive(mtime, cutoff_time) == mtime <= cutoff_time

\* file_age < cutoff_time, utils.py:413
Expired(mtime, cutoff_time) == mtime < cutoff_time

\* file_path.unlink() inside try/except, utils.py:414-418 and 429-433: the
\* directory afterwards and whether this run removed the entry.
unlink(dir, n, fault) ==
    IF dir[n].kind = "dir" \/ fault[n] = "denied"
    THEN [dir |-> dir, removed |-> FALSE]
    ELSE IF fault[n] = "gone_unlink" THEN [dir |-> Without(dir, n), removed |-> FALSE]
    ELSE [dir |-> Without(dir, n), removed |-> TRUE]

RECURSIVE AgePass(_, _, _, _, _)
\* "Clean by age", utils.py:409-418: the loop over the listing.  A stat that
\* fails is outside the inner try and ends the whole call (aborted).
AgePass(order, dir, cutoff_time, fault, removed) ==
    IF order = <<>> THEN [dir |-> dir, removed |-> removed, aborted |-> FALSE]
    ELSE LET n == Head(order) IN
         IF dir[n].kind # "file"
         THEN AgePass(Tail(order), dir, cutoff_time, fault, removed)
         ELSE IF fault[n] = "gone_age_stat"
         THEN [dir |-> Without(dir, n), removed |-> removed, aborted |-> TRUE]
         ELSE IF Expired(dir[n].mtime, cutoff_time)
         THEN LET u == unlink(dir, n, fault)
              IN  AgePass(Tail(order), u.dir, cutoff_time, fault,
                          IF u.removed THEN removed \cup {n} ELSE removed)
         ELSE AgePass(Tail(order), dir, cutoff_time, fault, removed)

RECURSIVE SortedNewestFirst(_, _)
\* sorted(entries, key=st_mtime, reverse=True): stable, so entries of equal
\* mtime stay in the order of the listing.
SortedNewestFirst(order, dir) ==
    IF order = <<>> THEN <<>>
    ELSE LET newest == CHOOSE m \in Days :
                           /\ \E i \in 1..Len(order) : dir[order[i]].mtime = m
                           /\ \A i \in 1..Len(order) : dir[order[i]].mtime <= m
         IN  SelectSeq(order, LAMBDA n : dir[n].mtime = newest)
             \o SortedNewestFirst(SelectSeq(order, LAMBDA n : dir[n].mtime # newest), dir)

RECURSIVE UnlinkAll(_, _, _, _)
\* the loop over files[max_files:], utils.py:428-433
UnlinkAll(files, dir, fault, removed) ==
    IF files = <<>> THEN [dir |-> dir, removed |-> removed, aborted |-> FALSE]
    ELSE LET u == unlink(dir, Head(files), fault)
         IN  UnlinkAll(Tail(files), u.dir, fault,
                       IF u.removed THEN removed \cup {Head(files)} ELSE removed)

\* "Clean by count", utils.py:420-433.  The sort key stats every entry of
\* the listing; a stat that fails ends the whole call.
CountPass(order, dir, max_files, fault) ==
    IF \E i \in 1..Len(order) : fault[order[i]] = "gone_count_stat"
    THEN LET n == CHOOSE m \in Names : m \in Present(dir) /\ fault[m] = "gone_count_stat"
         IN  [dir |-> Without(dir, n), removed |-> {}, aborted |-> TRUE]
    ELSE LET files == SortedNewestFirst(order, dir)
         IN  IF Len(files) > max_files
             THEN UnlinkAll(SubSeq(files, max_files + 1, Len(files)), dir, fault, {})
             ELSE [dir |-> dir, removed |-> {}, aborted |-> FALSE]

\* cleanup_old_files(max_age_days, max_files) run on the directory dir, which
\* enumerates as order, with the faults of F.  Both passes list the directory
\* anew.  The outer except swallows whatever a pass raises, so the call
\* always returns.
cleanup_old_files(dir, order, max_age_days, max_files, F) ==
    \E fault \in F :
      /\ \A n \in Names : fault[n] # "none" => n \in Present(dir)
      /\ \E age \in {AgePass(order, dir, storage_now - max_age_days, fault, {})} :
         \E second \in Relisted(order, dir, age.dir) :
         \E count \in {IF age.aborted
                        THEN [dir |-> age.dir, removed |-> {}, aborted |-> TRUE]
                        ELSE CountPass(second, age.dir, max_files, fault)} :
            /\ output_dir' = count.dir
            /\ listing' \in Relisted(second, age.dir, count.dir)
            /\ last_cleanup' =
                   [ran |-> TRUE, now |-> storage_now,
                    max_age_days |-> max_age_days, max_files |-> max_files,
                    before |-> dir, after_age |-> age.dir,
                    removed_age |-> age.removed, removed_count |-> count.removed,
                    aborted |-> count.aborted, fault |-> fault,
                    temp_before |-> temp_dir,
                    repeat |-> /\ last_cleanup.ran
                               /\ last_cleanup.now = storage_now
                               /\ last_cleanup.max_age_days = max_age_days
                               /\ last_cleanup.max_files = max_files]
            /\ UNCHANGED <<temp_dir, safe_paths, storage_now>>

\* storage_manager.cleanup_old_files(max_age_days, max_files) called on its
\* own, as the tests call it (test_app.py:306).
Cleanup(max_age_days, max_files, F) ==
    /\ cleanup_old_files(output_dir, listing, max_age_days, max_files, F)
    /\ UNCHANGED <<shared, locals, history, managers>>

\* An entry appears in OUTPUT_DIR: a video written by VideoProcessor.generate
\* (utils.py:251-262), a file whose mtime was set back (test_app.py:295-301),
\* or a directory made there.
Touch(n, kind, mtime) ==
    /\ output_dir[n].kind = "absent"
    /\ mtime <= storage_now
    /\ output_dir' = [output_dir EXCEPT ![n] = [kind |-> kind, mtime |-> mtime]]
    /\ listing' \in Orders(Present(output_dir'))
    /\ last_cleanup' = NoCleanup
    /\ UNCHANGED <<temp_dir, safe_paths, storage_now, shared, locals, history, managers>>

\* A staging file appears in TEMP_DIR.
Stage(n) ==
    /\ n \notin temp_dir
    /\ temp_dir' = temp_dir \cup {n}
    /\ last_cleanup' = NoCleanup
    /\ UNCHANGED <<output_dir, listing, safe_paths, storage_now, shared, locals, history,
                   managers>>

\* A day passes.
Advance ==
    /\ storage_now < MaxDay
    /\ storage_now' = storage_now + 1
    /\ UNCHANGED <<output_dir, listing, temp_dir, safe_paths, last_cleanup, shared, locals, history,
                   managers>>

(***************************************************************************)
(* generate_video, app.py:62-242, one action per step a thread takes.      *)
(***************************************************************************)
RECURSIVE Sum(_, _)
Sum(f, S) == IF S = {} THEN 0 ELSE LET x == CHOOSE y \in S : TRUE
                                   IN  f[x] + Sum(f, S \ {x})

\* The number of calls begun so far, by all threads.
TotalCalls == Sum(ncalls, Threads)

\* Entry of a call with the arguments r.
Enter(t, r) ==
    /\ pc[t] = "idle"
    /\ TotalCalls < MaxCalls
    /\ ncalls' = [ncalls EXCEPT ![t] = @ + 1]
    /\ req' = [req EXCEPT ![t] = r]
    /\ invoked' = [invoked EXCEPT ![t] = {}]

\* The call returns result: its frame is gone.
Return(t, result) ==
    /\ ret' = [ret EXCEPT ![t] = result]
    /\ pc' = [pc EXCEPT ![t] = "idle"]
    /\ job' = [job EXCEPT ![t] = NoJob]
    /\ ld' = [ld EXCEPT ![t] = NoLoad]
    /\ model_name' = [model_name EXCEPT ![t] = ""]
    /\ video_path' = [video_path EXCEPT ![t] = NoPath]
    /\ exc' = [exc EXCEPT ![t] = NoExc]

Failure(status) == [video |-> NoPath, audio |-> NoPath, status |-> status]

\* app.py:76-92: validation fails and the call returns the validation message.
RejectInvalid(t, r) ==
    LET validation_result == validate(r.prompt, r.duration, r.scene_count, r.resolution)
    IN  /\ Enter(t, r)
        /\ ~validation_result.valid
        /\ Return(t, Failure(format_user_error("Validation Error",
                                               validation_result.error, FALSE, <<>>)))
        /\ UNCHANGED <<managers, storage>>
        /\ UNCHANGED <<shared, admitted, dequeued, outcomes, ref_load>>

\* Submit with a fault: the validation result is not looked at.
SubmitUnchecked(t, r) ==
    /\ Enter(t, r)
    /\ IF full(job_queue)
       THEN /\ Return(t, Failure(format_user_error("Queue Full",
                     <<"Maximum queue size reached. Please try again later.">>,
                     FALSE, <<>>)))
            /\ outcomes' = Append(outcomes, "rejected")
       ELSE /\ job' = [job EXCEPT ![t] = [obj |-> TotalCalls + 1, job_id |-> JobId(clock)]]
            /\ ret' = [ret EXCEPT ![t] = NoRet]
            /\ pc' = [pc EXCEPT ![t] = "put"]
            /\ UNCHANGED <<ld, model_name, video_path, exc, outcomes>>
    /\ UNCHANGED <<managers, storage>>
    /\ UNCHANGED <<shared, admitted, dequeued, ref_load>>

\* app.py:76-117: validation passes, the job id is drawn from the clock and the
\* queue's capacity is checked; a full queue rejects the call.
Submit(t, r) ==
    LET validation_result == validate(r.prompt, r.duration, r.scene_count, r.resolution)
    IN  /\ Enter(t, r)
        /\ validation_result.valid
        /\ IF full(job_queue)
           THEN /\ Return(t, Failure(format_user_error("Queue Full",
                         <<"Maximum queue size reached. Please try again later.">>,
                         FALSE, <<>>)))
                /\ outcomes' = Append(outcomes, "rejected")
           ELSE /\ job' = [job EXCEPT ![t] = [obj |-> TotalCalls + 1, job_id |-> JobId(clock)]]
                /\ ret' = [ret EXCEPT ![t] = NoRet]
                /\ pc' = [pc EXCEPT ![t] = "put"]
                /\ UNCHANGED <<ld, model_name, video_path, exc, outcomes>>
        /\ UNCHANGED <<managers, storage>>
        /\ UNCHANGED <<shared, admitted, dequeued, ref_load>>

\* Put with a fault: the caught queue.Full is written to the error log.
PutLogged(t) ==
    LET r == put_nowait(job_queue, job[t])
    IN  /\ pc[t] = "put"
        /\ job_queue' = r.q
        /\ IF r.ok
           THEN /\ pc' = [pc EXCEPT ![t] = "load"]
                /\ admitted' = Append(admitted, job[t].obj)
                /\ outcomes' = Append(outcomes, "accepted")
                /\ UNCHANGED <<job, ld, model_name, video_path, exc, ret>>
           ELSE /\ Return(t, Failure(format_user_error("Queue Full",
                         <<"Could not add job to queue. Please try again.">>,
                         FALSE, <<>>)))
                /\ outcomes' = Append(outcomes, "rejected")
                /\ UNCHANGED admitted
        /\ error_log' = IF r.ok THEN error_log
                        ELSE log_error(error_log, [type |-> "Full", msg |-> <<>>],
                                       "queue_full")
        /\ raised_by' = IF r.ok THEN raised_by ELSE Append(raised_by, "queue")
        /\ UNCHANGED <<managers, storage>>
        /\ UNCHANGED <<active_jobs, current_model, current_model_name,
                       partial_output, DEBUG_MODE, job_lock, clock, req, invoked, ncalls, dequeued,
                       ref_load>>

\* Put with a fault: the admitted job is entered in queue_manager.active_jobs.
PutTracked(t) ==
    LET r == put_nowait(job_queue, job[t])
    IN  /\ pc[t] = "put"
        /\ job_queue' = r.q
        /\ IF r.ok
           THEN /\ pc' = [pc EXCEPT ![t] = "load"]
                /\ admitted' = Append(admitted, job[t].obj)
                /\ outcomes' = Append(outcomes, "accepted")
                /\ queue_manager_active_jobs' =
                       [k \in DOMAIN queue_manager_active_jobs \cup {job[t].job_id} |->
                           IF k = job[t].job_id THEN [cancelled |-> FALSE]
                           ELSE queue_manager_active_jobs[k]]
                /\ UNCHANGED <<job, ld, model_name, video_path, exc, ret>>
           ELSE /\ Return(t, Failure(format_user_error("Queue Full",
                         <<"Could not add job to queue. Please try again.">>,
                         FALSE, <<>>)))
                /\ outcomes' = Append(outcomes, "rejected")
                /\ UNCHANGED <<admitted, queue_manager_active_jobs>>
        /\ UNCHANGED <<cancel_ret, validate_ret, storage>>
        /\ UNCHANGED <<active_jobs, error_log, raised_by, current_model, current_model_name,
                       partial_output, DEBUG_MODE, job_lock, clock, req, invoked, ncalls, dequeued,
                       ref_load>>

\* Put with a fault: the thread takes job_lock as it puts the job on the
\* queue and keeps it while the job is processed.
PutHolding(t) ==
    LET r == put_nowait(job_queue, job[t])
    IN  /\ pc[t] = "put"
        /\ job_lock = Unlocked
        /\ job_queue' = r.q
        /\ IF r.ok
           THEN /\ pc' = [pc EXCEPT ![t] = "load"]
                /\ job_lock' = t
                /\ admitted' = Append(admitted, job[t].obj)
                /\ outcomes' = Append(outcomes, "accepted")
                /\ UNCHANGED <<job, ld, model_name, video_path, exc, ret>>
           ELSE /\ Return(t, Failure(format_user_error("Queue Full",
                         <<"Could not add job to queue. Please try again.">>,
                         FALSE, <<>>)))
                /\ outcomes' = Append(outcomes, "rejected")
                /\ UNCHANGED <<admitted, job_lock>>
        /\ UNCHANGED <<managers, storage>>
        /\ UNCHANGED <<active_jobs, error_log, raised_by, current_model, current_model_name,
                       partial_output, DEBUG_MODE, clock, req, invoked, ncalls, dequeued,
                       ref_load>>

\* app.py:119-131: the job is put on the queue, or queue.Full is caught and
\* the call returns.
Put(t) ==
    LET r == put_nowait(job_queue, job[t])
    IN  /\ pc[t] = "put"
        /\ job_queue' = r.q
        /\ IF r.ok
           THEN /\ pc' = [pc EXCEPT ![t] = "load"]
                /\ admitted' = Append(admitted, job[t].obj)
                /\ outcomes' = Append(outcomes, "accepted")
                /\ UNCHANGED <<job, ld, model_name, video_path, exc, ret>>
           ELSE /\ Return(t, Failure(format_user_error("Queue Full",
                         <<"Could not add job to queue. Please try again.">>,
                         FALSE, <<>>)))
                /\ outcomes' = Append(outcomes, "rejected")
                /\ UNCHANGED admitted
        /\ UNCHANGED <<managers, storage>>
        /\ UNCHANGED <<active_jobs, error_log, raised_by, current_model, current_model_name,
                       partial_output, DEBUG_MODE, job_lock, clock, req, invoked, ncalls, dequeued,
                       ref_load>>

(***************************************************************************)
(* ModelLoader.load_with_fallback, utils.py:207-225, called at app.py:135. *)
(* The loop reads and writes nothing shared until a tier has loaded, so    *)
(* the whole call is one step.                                             *)
(***************************************************************************)
\* The position of a tier in the chain (1 for a name that is not in it).
TierIndex(name) ==
    IF \E i \in 1..Len(fallback_chain) : fallback_chain[i] = name
    THEN CHOOSE i \in 1..Len(fallback_chain) : fallback_chain[i] = name
    ELSE 1

\* P: the answers the probe may give; F: the tiers whose loading may raise;
\* start: the tier the loop begins with.
LoadFrom(t, P, F, start) ==
    /\ pc[t] = "load"
    /\ invoked' = [invoked EXCEPT ![t] = @ \cup {"loader"}]
    /\ \E p \in P, faults \in F :
         LET r == RunChain(start, p, faults, <<>>, <<>>)
         IN  /\ ld' = [ld EXCEPT ![t] = [probe |-> p, attempts |-> r.attempts,
                                         last_error |-> r.last_error,
                                         prior_model |-> current_model,
                                         prior_name |-> current_model_name,
                                         done |-> TRUE]]
             /\ IF r.ok
                THEN /\ current_model' = r.name
                     /\ current_model_name' = r.name
                     /\ model_name' = [model_name EXCEPT ![t] = r.name]
                     /\ pc' = [pc EXCEPT ![t] = "loaded"]
                     /\ UNCHANGED exc
                ELSE /\ exc' = [exc EXCEPT ![t] = AggregatedFailure(r.last_error)]
                     /\ pc' = [pc EXCEPT ![t] = "except"]
                     /\ UNCHANGED <<current_model, current_model_name, model_name>>
    /\ UNCHANGED <<managers, storage>>
    /\ UNCHANGED <<job_queue, active_jobs, error_log, raised_by, partial_output,
                   DEBUG_MODE, job_lock,
                   clock, req, job, video_path, ret, history>>

\* Load with a fault: the loop resumes at the tier recorded by an earlier call.
LoadResume(t, P, F) == LoadFrom(t, P, F, TierIndex(current_model_name))

Load(t, P, F) == LoadFrom(t, P, F, 1)

(***************************************************************************)
(* VideoProcessor.generate, utils.py:234-274, called at app.py:141.        *)
(***************************************************************************)
\* int(time.time()): the clock in whole seconds (here one tick).
Seconds(c) == c

\* What the engine does with the call: it returns the file, or raises.
GenerateOutcomes == {"ok", "OutOfMemoryError", "RuntimeError", "TimeoutError", "ValueError"}

\* On out-of-memory: the model has no get_partial_output, or it returns None,
\* or it returns the path of the partial file of this job.  The exception in
\* flight remembers (partial) what the engine exposed to this call.
PartialKinds == {"no_attr", "none", "path"}

\* G: the outcomes the engine may have.
Generate(t, G) ==
    /\ pc[t] = "loaded"
    /\ invoked' = [invoked EXCEPT ![t] = @ \cup {"engine"}]
    /\ ld' = [ld EXCEPT ![t] = NoLoad]
    /\ \E o \in G :
         IF o = "ok"
         THEN LET output_path == [kind |-> "video", ts |-> Seconds(clock)]
              IN  /\ video_path' = [video_path EXCEPT ![t] = output_path]
                  /\ output_dir' = Written(output_dir, FileName(output_path), storage_now)
                  /\ listing' \in Relisted(listing, output_dir, output_dir')
                  /\ last_cleanup' = NoCleanup
                  /\ partial_output' = NoPath
                  /\ pc' = [pc EXCEPT ![t] = "finalize"]
                  /\ UNCHANGED exc
         ELSE \E k \in IF o = "OutOfMemoryError" THEN PartialKinds ELSE {"not_asked"} :
                LET own == IF k = "path" THEN [kind |-> "partial", ts |-> job[t].obj]
                           ELSE NoPath
                IN  /\ exc' = [exc EXCEPT ![t] = [type |-> o, msg |-> <<"generation raised">>,
                                                   partial |-> own]]
                    /\ pc' = [pc EXCEPT ![t] = "except"]
                    /\ partial_output' = CASE k = "none" -> NoPath
                                            [] k = "path" -> own
                                            [] OTHER -> partial_output
                    /\ UNCHANGED <<video_path, output_dir, listing, last_cleanup>>
    /\ UNCHANGED <<managers, temp_dir, safe_paths, storage_now>>
    /\ UNCHANGED <<job_queue, active_jobs, error_log, raised_by, current_model, current_model_name,
                   DEBUG_MODE, job_lock, clock, req, job, model_name, ret, history>>

\* The success message with a fault: the tier is not named.
SuccessStatusBare(name) ==
    [title |-> "Success", message |-> <<"Video generated successfully">>,
     tier |-> "", technical |-> <<>>]

\* f"... Video generated successfully using {model_name}", app.py:174
SuccessStatus(name) ==
    [title |-> "Success", message |-> <<"Video generated successfully using">>,
     tier |-> name, technical |-> <<>>]

\* What add_music does with the call: it is not called (no music file), it
\* returns the copy, or shutil.copy raises, as it must when the video is gone.
MuxOutcomes(music, video_there) ==
    IF ~music THEN {"skip"} ELSE IF video_there THEN {"ok", "raise"} ELSE {"raise"}

\* The result with a fault: a failure of add_music fails the job.
FinalResultFatal(mux, video, music_video, name) ==
    IF mux = "ok"
    THEN [video |-> music_video, audio |-> music_video, status |-> SuccessStatus(name)]
    ELSE IF mux = "raise"
    THEN Failure(format_user_error("Music Error", <<"Music integration failed.">>,
                                   FALSE, <<>>))
    ELSE [video |-> video, audio |-> NoPath, status |-> SuccessStatus(name)]

\* (final_video, audio_path, status_msg) of app.py:154-175: the video with
\* music when add_music returned it, else the video of the engine and no
\* audio path.
FinalResult(mux, video, music_video, name) ==
    IF mux = "ok"
    THEN [video |-> music_video, audio |-> music_video, status |-> SuccessStatus(name)]
    ELSE [video |-> video, audio |-> NoPath, status |-> SuccessStatus(name)]

\* No entry of dir is disturbed while cleanup runs.
Undisturbed(dir) == [n \in DOMAIN dir |-> "none"]

\* app.py:153-175 and utils.py:280-290: the music step, where a failure of
\* add_music is logged and the silent video kept, then
\* storage_manager.cleanup_old_files() with its default arguments, which
\* never raises, then the result of the call is built.
Finalize(t) ==
    /\ pc[t] = "finalize"
    /\ \E mux \in MuxOutcomes(req[t].music, Exists(output_dir, FileName(video_path[t]))) :
         LET audio_path == [kind |-> "video_with_music", ts |-> Seconds(clock)]
             copied == IF mux = "ok"
                       THEN Written(output_dir, FileName(audio_path), storage_now)
                       ELSE output_dir
         IN  /\ invoked' = [invoked EXCEPT ![t] =
                               @ \cup (IF mux = "skip" THEN {} ELSE {"muxer"}) \cup {"cleanup"}]
             /\ error_log' = IF mux = "raise"
                              THEN log_error(error_log,
                                             [type |-> "OSError", msg |-> <<"copy failed">>],
                                             "music_integration")
                              ELSE error_log
             /\ raised_by' = IF mux = "raise" THEN Append(raised_by, "muxer") ELSE raised_by
             /\ ret' = [ret EXCEPT ![t] =
                          FinalResult(mux, video_path[t], audio_path, model_name[t])]
             /\ \E order \in Relisted(listing, output_dir, copied) :
                    cleanup_old_files(copied, order, MAX_FILE_AGE_DAYS, MAX_FILES,
                                      {Undisturbed(copied)})
    /\ pc' = [pc EXCEPT ![t] = "finally"]
    /\ UNCHANGED managers
    /\ UNCHANGED <<job_queue, active_jobs, current_model, current_model_name,
                   partial_output, DEBUG_MODE, job_lock, clock, req, job, ld, model_name,
                   video_path, exc, history>>

\* The context tag each except clause of app.py:177-226 logs under.
ContextOf(type) ==
    CASE type = "OutOfMemoryError" -> "oom_error"
      [] type = "RuntimeError" -> "runtime_error"
      [] type = "TimeoutError" -> "timeout_error"
      [] OTHER -> "unexpected_error"

\* The except clauses with a fault: the last one, except Exception, is
\* missing, so an error of no specific kind leaves generate_video as a raised
\* exception.
ErrorResultSpecific(e, partial_video, debug) ==
    CASE e.type = "OutOfMemoryError" ->
            Failure(format_user_error("Out of Memory", <<"out of memory">>, TRUE, e.msg))
      [] e.type = "RuntimeError" ->
            Failure(format_user_error("Generation Error", <<"generation error">>, TRUE, e.msg))
      [] e.type = "TimeoutError" ->
            Failure(format_user_error("Timeout", <<"timeout">>, TRUE, e.msg))
      [] OTHER ->
            Failure([title |-> "Traceback", message |-> e.msg, tier |-> "",
                     technical |-> <<>>])

\* What each except clause of app.py:177-226 returns for the error e.
ErrorResult(e, partial_video, debug) ==
    CASE e.type = "OutOfMemoryError" ->
            IF partial_video # NoPath
            THEN [video |-> partial_video, audio |-> NoPath,
                  status |-> format_user_error("Out of Memory",
                      <<"Video generation ran out of GPU memory. A partial video was saved.">>,
                      TRUE, e.msg)]
            ELSE Failure(format_user_error("Out of Memory",
                      <<"Video generation requires more GPU memory. Try reducing resolution or duration.">>,
                      TRUE, e.msg))
      [] e.type = "RuntimeError" ->
            Failure(format_user_error("Generation Error",
                <<"An error occurred during video generation. You can retry.">>,
                TRUE, e.msg))
      [] e.type = "TimeoutError" ->
            Failure(format_user_error("Timeout",
                <<"Video generation timed out. The job has been cancelled.">>,
                TRUE, e.msg))
      [] OTHER ->
            Failure(format_user_error("Unexpected Error",
                <<"An unexpected error occurred. Please check the logs.">>,
                debug, <<"traceback">> \o e.msg))

\* The stage whose exception thread t is handling: the engine if it was
\* called, else the loader.
FailedStage(t) == IF "engine" \in invoked[t] THEN "engine" ELSE "loader"

\* app.py:177-226: the except clause that matches logs the error and builds
\* the result of the call.
Except(t) ==
    /\ pc[t] = "except"
    /\ error_log' = log_error(error_log, exc[t], ContextOf(exc[t].type))
    /\ raised_by' = Append(raised_by, FailedStage(t))
    /\ ret' = [ret EXCEPT ![t] = ErrorResult(exc[t], partial_output, DEBUG_MODE)]
    /\ exc' = [exc EXCEPT ![t] = NoExc]
    /\ ld' = [ld EXCEPT ![t] = NoLoad]
    /\ pc' = [pc EXCEPT ![t] = "finally"]
    /\ UNCHANGED <<managers, storage>>
    /\ UNCHANGED <<job_queue, active_jobs, current_model, current_model_name,
                   partial_output, DEBUG_MODE, job_lock, clock, req, job, model_name,
                   video_path, invoked, history>>

\* app.py:230, "with job_lock:": the thread waits until the lock is free and
\* takes it.
FinallyAcquire(t) ==
    /\ pc[t] = "finally"
    /\ job_lock = Unlocked
    /\ job_lock' = t
    /\ pc' = [pc EXCEPT ![t] = "locked"]
    /\ UNCHANGED <<managers, storage>>
    /\ UNCHANGED <<job_queue, active_jobs, error_log, raised_by, current_model,
                   current_model_name, partial_output, DEBUG_MODE, clock, req, job, ld,
                   model_name, video_path, exc, ret, invoked, history>>

\* app.py:231-232 and the end of the with block: the job is dropped from
\* active_jobs, the lock released, and the call returns.
FinallyRelease(t) ==
    /\ pc[t] = "locked"
    /\ active_jobs' = active_jobs \ {job[t].job_id}
    /\ job_lock' = Unlocked
    /\ Return(t, ret[t])
    /\ UNCHANGED <<managers, storage>>
    /\ UNCHANGED <<job_queue, error_log, raised_by, current_model, current_model_name,
                   partial_output, DEBUG_MODE, clock, req, invoked, history>>

\* app.py:228-232: the finally clause, under job_lock, and the return, as one
\* step: the lock is taken and released within it.
Finally(t) ==
    /\ pc[t] = "finally"
    /\ job_lock = Unlocked
    /\ active_jobs' = active_jobs \ {job[t].job_id}
    /\ Return(t, ret[t])
    /\ UNCHANGED <<managers, storage>>
    /\ UNCHANGED <<job_queue, error_log, raised_by, current_model, current_model_name,
                   partial_output, DEBUG_MODE, job_lock, clock, req, invoked, history>>

(***************************************************************************)
(* The environment.                                                        *)
(***************************************************************************)
\* A consumer takes the oldest job off the queue (job_queue.get(),
\* test_app.py:244-246 and 268-270); get waits while the queue is empty.
Dequeue ==
    /\ job_queue # <<>>
    /\ job_queue' = get(job_queue).q
    /\ dequeued' = Append(dequeued, get(job_queue).item.obj)
    /\ UNCHANGED <<managers, storage>>
    /\ UNCHANGED <<active_jobs, error_log, raised_by, current_model, current_model_name,
                   partial_output, DEBUG_MODE, job_lock, clock, locals, ncalls, admitted, outcomes,
                   ref_load>>

\* History only: the frame of a load call that has just ended is kept as the
\* reference that later calls are compared with.
Remember(t) ==
    /\ ld[t].done
    /\ ~ref_load.done
    /\ ref_load' = ld[t]
    /\ UNCHANGED <<managers, storage>>
    /\ UNCHANGED <<shared, locals, ncalls, admitted, dequeued, outcomes>>

\* Time passes.
Tick ==
    /\ clock < MaxClock
    /\ clock' = clock + 1
    /\ UNCHANGED <<managers, storage>>
    /\ UNCHANGED <<job_queue, active_jobs, error_log, raised_by, current_model, current_model_name,
                   partial_output, DEBUG_MODE, job_lock, locals, history>>

(***************************************************************************)
(* StorageManager.get_safe_temp_path, utils.py:396-401.                    *)
(***************************************************************************)
\* os.getpid(): the same in every call of one process.
Pid == 4242

\* int(time.time() * 1000000): the clock in whole microseconds (here one tick).
Micros(c) == c

\* hashlib.md5(f"{timestamp}{os.getpid()}".encode()).hexdigest()[:8]: the
\* digest is a function of the timestamp and the pid, and of nothing else.
md5_hexdigest_8(timestamp, pid) == <<"md5", timestamp, pid>>

\* The path returned by a call made when time.time() reads now.
get_safe_temp_path(now, prefix, suffix) ==
    LET timestamp == Micros(now)
        random_suffix == md5_hexdigest_8(timestamp, Pid)
    IN  [dir |-> "TEMP_DIR", prefix |-> prefix, timestamp |-> timestamp,
         random_suffix |-> random_suffix, suffix |-> suffix]

\* storage_manager.get_safe_temp_path(prefix, suffix)
GetSafeTempPath(prefix, suffix) ==
    /\ Len(safe_paths) < MaxPaths
    /\ safe_paths' = Append(safe_paths, get_safe_temp_path(clock, prefix, suffix))
    /\ UNCHANGED <<output_dir, listing, temp_dir, storage_now, last_cleanup, shared, locals,
                   history, managers>>

(***************************************************************************)
(* QueueManager, utils.py:292-319, and cancel_job of app.py:252-262.       *)
(***************************************************************************)
\* The ids cancel_job is called with: the callers' ids and one nobody uses.
CancelIds == JobIds \cup {<<"job", 9>>}

IsTracked(jobs, job_id) == job_id \in DOMAIN jobs

\* A cancel_job that creates the entry it does not find.
cancel_job_setdefault(jobs, job_id) ==
    [found |-> TRUE,
     jobs |-> [k \in DOMAIN jobs \cup {job_id} |->
                  IF k = job_id THEN [cancelled |-> TRUE] ELSE jobs[k]]]

\* QueueManager.cancel_job: the result and self.active_jobs afterwards.
cancel_job(jobs, job_id) ==
    IF IsTracked(jobs, job_id)
    THEN [found |-> TRUE, jobs |-> [jobs EXCEPT ![job_id].cancelled = TRUE]]
    ELSE [found |-> FALSE, jobs |-> jobs]

\* QueueManager.get_status: the text built from job_queue.qsize() and
\* len(self.active_jobs).
get_status(q, jobs) ==
    <<"Queue: ", Len(q), " pending, ", Cardinality(DOMAIN jobs), " active">>

\* The message app.cancel_job builds from the result.
CancelMessage(found) ==
    IF found THEN "cancelled successfully" ELSE "not found or already completed"

\* app.cancel_job(job_id).
CancelJob(job_id) ==
    LET r == cancel_job(queue_manager_active_jobs, job_id) IN
    /\ queue_manager_active_jobs' = r.jobs
    /\ cancel_ret' = [job_id |-> job_id, found |-> r.found,
                      message |-> CancelMessage(r.found)]
    /\ UNCHANGED <<validate_ret, shared, locals, history, storage>>

\* A caller of the class enters a job in queue_manager.active_jobs, not yet
\* cancelled.  No code of app.py or utils.py writes this dict.
Track(job_id) ==
    /\ ~IsTracked(queue_manager_active_jobs, job_id)
    /\ queue_manager_active_jobs' =
           [k \in DOMAIN queue_manager_active_jobs \cup {job_id} |->
               IF k = job_id THEN [cancelled |-> FALSE]
               ELSE queue_manager_active_jobs[k]]
    /\ UNCHANGED <<cancel_ret, validate_ret, shared, locals, history, storage>>

\* The fault vectors: which tiers' loading raises.
Faults == [1..Len(fallback_chain) -> BOOLEAN]
NoFaults == [i \in 1..Len(fallback_chain) |-> FALSE]
AllFaults == [i \in 1..Len(fallback_chain) |-> TRUE]
HealthyProbe == [gpu |-> TRUE, vram_ok |-> TRUE, free |-> VramThreshold]

(***************************************************************************)
(* Spec: concurrent callers and a consumer, with the default configuration *)
(* (DEBUG_MODE unset); the loader either loads the primary tier or fails   *)
(* altogether, and the engine returns its file or raises RuntimeError.     *)
(***************************************************************************)
Requests == {ValidRequest} \cup InvalidRequests

Next ==
    \/ \E t \in Threads, r \in Requests : RejectInvalid(t, r)
    \/ \E t \in Threads, r \in Requests : Submit(t, r)
    \/ \E t \in Threads : Put(t)
    \/ \E t \in Threads : Load(t, {HealthyProbe}, {NoFaults, AllFaults})
    \/ \E t \in Threads : Generate(t, {"ok", "RuntimeError"})
    \/ \E t \in Threads : Finalize(t)
    \/ \E t \in Threads : Except(t)
    \/ \E t \in Threads : Finally(t)
    \/ Dequeue

InitDefault == Init /\ ~DEBUG_MODE

Spec == InitDefault /\ [][Next]_vars

(***************************************************************************)
(* LoaderSpec: one caller after another; the probe and the tiers' loading  *)
(* are unconstrained.                                                      *)
(***************************************************************************)
NextLoader ==
    \/ Submit("w1", ValidRequest)
    \/ Put("w1")
    \/ Load("w1", Probes, Faults)
    \/ Generate("w1", {"ok"})
    \/ Finalize("w1")
    \/ Except("w1")
    \/ Finally("w1")
    \/ Remember("w1")
    \/ Dequeue

LoaderSpec == InitDefault /\ [][NextLoader]_vars

(***************************************************************************)
(* ValidatorSpec: input_validator.validate called with arguments at and    *)
(* around the limits of each rule, in every combination.                   *)
(***************************************************************************)
\* Prompts: empty, blank, one character, at the limit, one over the limit.
EdgePrompts ==
    {[len |-> 0, blank |-> FALSE], [len |-> 5, blank |-> TRUE], [len |-> 1, blank |-> FALSE],
     [len |-> max_prompt_length, blank |-> FALSE],
     [len |-> max_prompt_length + 1, blank |-> FALSE]}
EdgeDurations == {0 - 1, 0, 1, max_duration, max_duration + 1}
EdgeSceneCounts == {0, 1, max_scene_count, max_scene_count + 1}
\* "5x5", "0x5", "5x-1", "bad", "5x", "1x2x3", " 5x5"
EdgeResolutions ==
    {<<"5", "x", "5">>, <<"0", "x", "5">>, <<"5", "x", "-", "1">>, <<"b", "a", "d">>,
     <<"5", "x">>, <<"1", "x", "2", "x", "3">>, <<" ", "5", "x", "5">>}

\* input_validator.validate(prompt, duration, scene_count, resolution)
Validate(prompt, duration, scene_count, resolution) ==
    /\ validate_ret' = [called |-> TRUE, prompt |-> prompt, duration |-> duration,
                        scene_count |-> scene_count, resolution |-> resolution,
                        result |-> validate(prompt, duration, scene_count, resolution)]
    /\ UNCHANGED <<queue_manager_active_jobs, cancel_ret, shared, locals, history, storage>>

NextValidator ==
    \E p \in EdgePrompts, d \in EdgeDurations, n \in EdgeSceneCounts, r \in EdgeResolutions :
        Validate(p, d, n, r)

ValidatorSpec == InitDefault /\ [][NextValidator]_vars

(***************************************************************************)
(* StorageSpec: files and directories appear in OUTPUT_DIR, days pass and  *)
(* cleanup runs undisturbed.  StorageFaultSpec: one entry per run may be   *)
(* disturbed.                                                              *)
(***************************************************************************)
TempNames == {"temp_1"}

NextStorageWith(F) ==
    \/ \E n \in Names, k \in {"file", "dir"}, m \in Days : Touch(n, k, m)
    \/ \E n \in TempNames : Stage(n)
    \/ Advance
    \/ \E a \in 1..MaxAgeArg, m \in 1..MaxFilesArg : Cleanup(a, m, F)

NextStorage == NextStorageWith({NoFault})

StorageSpec == InitDefault /\ [][NextStorage]_vars

NextStorageFault == NextStorageWith(OneFault)

StorageFaultSpec == InitDefault /\ [][NextStorageFault]_vars

(***************************************************************************)
(* ManagerSpec: one caller of generate_video after another, with jobs      *)
(* entered in the queue manager's dict and cancelled at any moment.        *)
(***************************************************************************)
NextManager ==
    \/ Submit("w1", ValidRequest)
    \/ Put("w1")
    \/ Load("w1", {HealthyProbe}, {NoFaults, AllFaults})
    \/ Generate("w1", {"ok"})
    \/ Finalize("w1")
    \/ Except("w1")
    \/ Finally("w1")
    \/ \E i \in JobIds : Track(i)
    \/ \E i \in CancelIds : CancelJob(i)

ManagerSpec == InitDefault /\ [][NextManager]_vars

(***************************************************************************)
(* FailureSpec: concurrent callers, with or without a music file, in the   *)
(* default configuration; the loader loads the primary tier or fails       *)
(* altogether, the engine returns its file or raises an exception of any   *)
(* kind, and add_music may raise.                                          *)
(***************************************************************************)
NextFailure ==
    \/ \E t \in Threads, r \in {ValidRequest, MusicRequest} : Submit(t, r)
    \/ \E t \in Threads : Put(t)
    \/ \E t \in Threads : Load(t, {HealthyProbe}, {NoFaults, AllFaults})
    \/ \E t \in Threads : Generate(t, GenerateOutcomes)
    \/ \E t \in Threads : Finalize(t)
    \/ \E t \in Threads : Except(t)
    \/ \E t \in Threads : Finally(t)

FailureSpec == InitDefault /\ [][NextFailure]_vars

(***************************************************************************)
(* LockSpec: concurrent callers whose finally clause takes job_lock in one *)
(* step and releases it in another, while status and cancel requests come  *)
(* in.                                                                     *)
(***************************************************************************)
NextLock ==
    \/ \E t \in Threads : Submit(t, ValidRequest)
    \/ \E t \in Threads : Put(t)
    \/ \E t \in Threads : Load(t, {HealthyProbe}, {NoFaults, AllFaults})
    \/ \E t \in Threads : Generate(t, {"ok", "RuntimeError"})
    \/ \E t \in Threads : Finalize(t)
    \/ \E t \in Threads : Except(t)
    \/ \E t \in Threads : FinallyAcquire(t)
    \/ \E t \in Threads : FinallyRelease(t)
    \/ \E i \in CancelIds : CancelJob(i)

LockSpec == InitDefault /\ [][NextLock]_vars

(***************************************************************************)
(* TempPathSpec: get_safe_temp_path called again and again, with the       *)
(* default arguments and with others, while the clock advances or not.     *)
(***************************************************************************)
Prefixes == {"temp", "upload"}
Suffixes == {".tmp", ".mp4"}

NextTempPath ==
    \/ \E prefix \in Prefixes, suffix \in Suffixes : GetSafeTempPath(prefix, suffix)
    \/ Tick

TempPathSpec == InitDefault /\ [][NextTempPath]_vars

(***************************************************************************)
(* RetentionSpec: concurrent callers whose loader and engine succeed,      *)
(* while seconds and days pass; each call writes its video to OUTPUT_DIR   *)
(* and runs cleanup before it returns.                                     *)
(***************************************************************************)
NextRetention ==
    \/ \E t \in Threads : Submit(t, ValidRequest)
    \/ \E t \in Threads : Put(t)
    \/ \E t \in Threads : Load(t, {HealthyProbe}, {NoFaults})
    \/ \E t \in Threads : Generate(t, {"ok"})
    \/ \E t \in Threads : Finalize(t)
    \/ \E t \in Threads : Finally(t)
    \/ Tick
    \/ Advance

RetentionSpec == InitDefault /\ [][NextRetention]_vars

(***************************************************************************)
(* Properties of admission.                                                *)
(***************************************************************************)
Pending == [i \in 1..Len(job_queue) |-> job_queue[i].obj]

\* C1: in every reachable state, under any interleaving of concurrent
\* generate_video calls, the queue holds at most its capacity of jobs.
C1_QueueWithinCapacity == Len(job_queue) <= QueueCapacity

\* The queue is full while two callers that both passed the capacity check
\* have been through put_nowait, one of them turned away by it.
C1_Witness ==
    /\ Len(job_queue) = QueueCapacity
    /\ \E t \in Threads :
         /\ pc[t] = "idle"
         /\ ret[t].status.message = <<"Could not add job to queue. Please try again.">>

\* C2: from the empty queue and with nothing dequeued, the submissions of
\* valid jobs are accepted up to the capacity and every later one is rejected
\* as queue-full: the i-th outcome is an acceptance exactly when i <= capacity.
C2_FillThenReject ==
    dequeued = <<>> =>
        /\ \A i \in DOMAIN outcomes : (outcomes[i] = "accepted") <=> (i <= QueueCapacity)
        /\ \A t \in Threads :
             (pc[t] = "idle" /\ ncalls[t] > 0 /\ validate(req[t].prompt, req[t].duration,
                                   req[t].scene_count, req[t].resolution).valid
              /\ ret[t].status.title = "Queue Full")
             => Len(job_queue) = QueueCapacity

C2_Witness ==
    /\ dequeued = <<>>
    /\ Len(outcomes) = QueueCapacity + 1
    /\ outcomes[QueueCapacity + 1] = "rejected"
    /\ \E t \in Threads : pc[t] = "idle" /\ ret[t].status.title = "Queue Full"

QueueFullStep == outcomes' = Append(outcomes, "rejected")

\* C4: a queue-full rejection, by the capacity check or by put_nowait losing
\* the race, never waits (put_nowait can always take its step) and changes
\* nothing: the queue, the active-job map, the error log and the loader's
\* current model stay as they are, and the rejected call has invoked neither
\* the loader nor the engine.
C4_RejectionChangesNothing ==
    /\ [][QueueFullStep =>
            /\ UNCHANGED <<job_queue, active_jobs, error_log, current_model,
                           current_model_name, partial_output, admitted, dequeued>>
            /\ \A t \in Threads :
                 (pc'[t] = "idle" /\ ret'[t].status.title = "Queue Full")
                 => /\ invoked'[t] = {}
                    /\ ret'[t].video = NoPath /\ ret'[t].audio = NoPath]_vars
    /\ [](\A t \in Threads : pc[t] = "put" => ENABLED Put(t))

\* A caller has lost the race at put_nowait after errors were logged and a
\* model was loaded.
C4_Witness ==
    /\ \E t \in Threads :
         /\ pc[t] = "idle"
         /\ ret[t].status.message = <<"Could not add job to queue. Please try again.">>
    /\ error_log # <<>>
    /\ current_model_name # "none"

\* A step in which thread t begins a call whose arguments fail validation.
InvalidCallStep(t) ==
    /\ ncalls'[t] = ncalls[t] + 1
    /\ ~validate(req'[t].prompt, req'[t].duration, req'[t].scene_count,
                 req'[t].resolution).valid

\* C5: a call whose arguments fail validation returns at once with no artifact
\* and the validation message; no job is created or enqueued, nothing is
\* logged, and the loader and the engine are not invoked.
C5_InvalidRejectedBeforeAdmission ==
    [][\A t \in Threads : InvalidCallStep(t) =>
          /\ UNCHANGED <<job_queue, active_jobs, error_log, current_model,
                         current_model_name, partial_output, admitted, outcomes>>
          /\ pc'[t] = "idle"
          /\ job'[t] = NoJob
          /\ invoked'[t] = {}
          /\ ret'[t].video = NoPath /\ ret'[t].audio = NoPath
          /\ ret'[t].status.title = "Validation Error"
          /\ ret'[t].status.technical = <<>>
          /\ ret'[t].status.message =
                 validate(req'[t].prompt, req'[t].duration, req'[t].scene_count,
                          req'[t].resolution).error]_vars

\* An invalid call has returned while jobs are pending and errors are logged.
C5_Witness ==
    /\ \E t \in Threads :
         /\ pc[t] = "idle"
         /\ ret[t].status.title = "Validation Error"
         /\ Len(ret[t].status.message) = 3
    /\ job_queue # <<>>
    /\ error_log # <<>>

(***************************************************************************)
(* Properties of the loader.                                               *)
(***************************************************************************)
\* The frame f is of a call in which the loop called the tiers 1..n of the
\* chain in order, each once.
InChainOrder(f) ==
    /\ Len(f.attempts) >= 1
    /\ Len(f.attempts) <= Len(fallback_chain)
    /\ \A i \in 1..Len(f.attempts) : f.attempts[i].tier = fallback_chain[i]

\* The tier a finished call chose ("none" when every tier failed).
Chosen(f) ==
    IF f.attempts # <<>> /\ f.attempts[Len(f.attempts)].ok
    THEN f.attempts[Len(f.attempts)].tier ELSE "none"

\* C6: when load_with_fallback returns, the tiers were tried in chain order,
\* each once; all but the last tried failed, the last one succeeded, its name
\* is what is returned and what the loader records as current; no later tier
\* was tried and nothing was raised.
C6_FirstSuccessWins ==
    \A t \in Threads : (pc[t] = "loaded" /\ ld[t].done) =>
        LET a == ld[t].attempts
            n == Len(a)
        IN  /\ InChainOrder(ld[t])
            /\ \A i \in 1..(n - 1) : ~a[i].ok
            /\ a[n].ok
            /\ model_name[t] = fallback_chain[n]
            /\ current_model_name = fallback_chain[n]
            /\ current_model = fallback_chain[n]
            /\ exc[t] = NoExc

\* Tiers 1 and 2 raised although a GPU is there, and tier 3 was returned.
C6_Witness ==
    \E t \in Threads :
        /\ pc[t] = "loaded" /\ ld[t].done
        /\ ld[t].probe.gpu
        /\ Len(ld[t].attempts) = 3
        /\ model_name[t] = "cogvideox-2b"

\* C7: when every tier fails, one RuntimeError is raised whose message ends
\* with the error of the last tier tried; nothing is returned and the loader's
\* current model and name are as they were when the call began.
C7_AllTiersFail ==
    \A t \in Threads : (pc[t] = "except" /\ ld[t].done) =>
        LET a == ld[t].attempts
        IN  /\ InChainOrder(ld[t])
            /\ Len(a) = Len(fallback_chain)
            /\ \A i \in 1..Len(a) : ~a[i].ok
            /\ exc[t].type = "RuntimeError"
            /\ exc[t].msg = <<"All model loading attempts failed. Last error: ">>
                            \o a[Len(a)].err
            /\ a[Len(a)].err # <<>>
            /\ model_name[t] = ""
            /\ current_model = ld[t].prior_model
            /\ current_model_name = ld[t].prior_name

\* Every tier failed in a call made after an earlier call had loaded a model.
C7_Witness ==
    \E t \in Threads :
        /\ pc[t] = "except" /\ ld[t].done
        /\ ld[t].prior_name # "none"

\* Two calls had the same inputs: the probe answered the same, and every tier
\* that both calls tried behaved the same.
SameInputs(f, g) ==
    /\ f.probe = g.probe
    /\ \A i \in 1..Len(f.attempts), j \in 1..Len(g.attempts) :
         f.attempts[i].tier = g.attempts[j].tier
         => f.attempts[i].fault = g.attempts[j].fault

\* C8: a call of load_with_fallback chooses the same tier as any earlier call
\* that had the same inputs, whatever the loader had recorded before either.
C8_Deterministic ==
    \A t \in Threads :
        (ld[t].done /\ ref_load.done /\ SameInputs(ld[t], ref_load))
        => Chosen(ld[t]) = Chosen(ref_load)

\* A call with the inputs of an earlier call, begun in a different loader
\* state, has ended after trying more than one tier.
C8_Witness ==
    \E t \in Threads :
        /\ ld[t].done /\ ref_load.done
        /\ SameInputs(ld[t], ref_load)
        /\ ld[t].prior_name # ref_load.prior_name
        /\ Len(ld[t].attempts) >= 2

\* C9: without a GPU, open-sora and cogvideox-5b raise at their GPU check,
\* and cogvideox-2b, unless its own loading raises, loads on the CPU: it is
\* the tier returned and no aggregated failure is raised.
C9_CpuFallback ==
    \A t \in Threads : (ld[t].done /\ ~ld[t].probe.gpu) =>
        LET a == ld[t].attempts
        IN  /\ Len(a) >= 3
            /\ a[1].tier = "open-sora" /\ ~a[1].ok
            /\ a[1].err = <<"GPU not available for Open-Sora">>
            /\ a[2].tier = "cogvideox-5b" /\ ~a[2].ok
            /\ a[2].err = <<"GPU not available">>
            /\ a[3].tier = "cogvideox-2b"
            /\ ~a[3].fault =>
                 /\ a[3].ok /\ a[3].cpu
                 /\ Len(a) = 3
                 /\ pc[t] = "loaded"
                 /\ model_name[t] = "cogvideox-2b"
                 /\ exc[t] = NoExc

C9_Witness ==
    \E t \in Threads :
        /\ ld[t].done /\ ~ld[t].probe.gpu
        /\ pc[t] = "loaded"
        /\ model_name[t] = "cogvideox-2b"
        /\ ld[t].attempts[3].cpu

\* The probe reports a GPU whose free VRAM is below the threshold.
LowVram(p) == p.gpu /\ p.vram_ok /\ p.free < VramThreshold

CancelPost(job_id) ==
    /\ job_queue' = job_queue
    /\ UNCHANGED <<active_jobs, error_log, locals>>
    /\ IF IsTracked(queue_manager_active_jobs, job_id)
       THEN /\ cancel_ret'.found
            /\ DOMAIN queue_manager_active_jobs' = DOMAIN queue_manager_active_jobs
            /\ queue_manager_active_jobs'[job_id].cancelled
            /\ \A o \in DOMAIN queue_manager_active_jobs \ {job_id} :
                   queue_manager_active_jobs'[o] = queue_manager_active_jobs[o]
       ELSE /\ ~cancel_ret'.found
            /\ queue_manager_active_jobs' = queue_manager_active_jobs

\* C11: cancel on a tracked id sets that job's cancelled flag and returns
\* found = true; on an untracked id it returns found = false and changes
\* nothing; in both cases the pending queue and every other job's flag are
\* unchanged, and the call always returns (it is enabled in every state).
C11_CancelContract ==
    /\ [][cancel_ret' # cancel_ret => CancelPost(cancel_ret'.job_id)]_vars
    /\ [](\A i \in CancelIds : ENABLED CancelJob(i))

\* A tracked job was cancelled while a job was pending and another tracked
\* job keeps its flag.
C11_Witness ==
    /\ cancel_ret.found
    /\ queue_manager_active_jobs[cancel_ret.job_id].cancelled
    /\ \E o \in DOMAIN queue_manager_active_jobs :
           ~queue_manager_active_jobs[o].cancelled
    /\ job_queue # <<>>

\* The job of thread t has been admitted and its execution has begun: the
\* loader has run for it, or the engine has.
Executing(t) == pc[t] \in {"loaded", "finalize"}

InQueue(obj) == \E i \in DOMAIN job_queue : job_queue[i].obj = obj

\* C12: a job is executed only after it has left the pending queue: in no
\* state is a job both in the queue and being executed.
C12_QueuedJobNotExecuting ==
    \A t \in Threads : Executing(t) => ~InQueue(job[t].obj)

PromptRule(a) == a.prompt.len >= 1 /\ ~a.prompt.blank /\ a.prompt.len <= 1000
DurationRule(a) == 0 < a.duration /\ a.duration <= 60
SceneRule(a) == 1 <= a.scene_count /\ a.scene_count <= 10

\* The resolution has the form <width>x<height>: one "x" with an integer
\* numeral on each side.
WellFormed(res) ==
    /\ Cardinality({i \in 1..Len(res) : res[i] = "x"}) = 1
    /\ LET i == CHOOSE j \in 1..Len(res) : res[j] = "x"
       IN  /\ ParseInt(SubSeq(res, 1, i - 1)).ok
           /\ ParseInt(SubSeq(res, i + 1, Len(res))).ok

ResolutionRule(a) ==
    /\ WellFormed(a.resolution)
    /\ LET i == CHOOSE j \in 1..Len(a.resolution) : a.resolution[j] = "x"
       IN  /\ ParseInt(SubSeq(a.resolution, 1, i - 1)).val > 0
           /\ ParseInt(SubSeq(a.resolution, i + 1, Len(a.resolution))).val > 0

\* C14: validate returns valid = true exactly when the four rules hold, the
\* limits themselves being accepted (duration 60, scene count 1 and 10,
\* prompt length 1000) and duration 0 refused; and the error message is None
\* exactly when valid is true.
C14_ValidIffRules ==
    validate_ret.called =>
        /\ validate_ret.result.valid <=>
              (/\ PromptRule(validate_ret) /\ DurationRule(validate_ret)
               /\ SceneRule(validate_ret) /\ ResolutionRule(validate_ret))
        /\ (validate_ret.result.error = None) <=> validate_ret.result.valid

\* validate has accepted arguments that sit on every upper limit.
C14_Witness ==
    /\ validate_ret.called
    /\ validate_ret.prompt.len = 1000
    /\ validate_ret.duration = 60
    /\ validate_ret.scene_count = 10
    /\ validate_ret.result.valid

\* The number of rules the arguments of the last call violate.
ViolatedCount(a) ==
    (IF PromptRule(a) THEN 0 ELSE 1) + (IF DurationRule(a) THEN 0 ELSE 1)
    + (IF SceneRule(a) THEN 0 ELSE 1) + (IF ResolutionRule(a) THEN 0 ELSE 1)

Complains(e, complaints) == \E i \in 1..Len(e) : e[i] \in complaints

\* C15: validate does not stop at the first violated rule: the message holds
\* one complaint for each violated rule, in the order prompt, duration, scene
\* count, resolution, with "; " between them, and a resolution that is not of
\* the form WxH gets the format complaint, not the range one.
C15_EveryViolationReported ==
    validate_ret.called =>
        LET e == validate_ret.result.error
            n == ViolatedCount(validate_ret)
        IN  /\ Len(e) = IF n = 0 THEN 0 ELSE 2 * n - 1
            /\ \A i \in 1..Len(e) : (e[i] = "; ") <=> (i % 2 = 0)
            /\ ~PromptRule(validate_ret) =>
                   Complains(e, {"Prompt cannot be empty", "Prompt too long"})
            /\ ~DurationRule(validate_ret) =>
                   Complains(e, {"Duration must be positive", "Duration exceeds maximum"})
            /\ ~SceneRule(validate_ret) =>
                   Complains(e, {"Scene count must be at least 1",
                                 "Scene count exceeds maximum"})
            /\ ~WellFormed(validate_ret.resolution) =>
                   /\ Complains(e, {"Invalid resolution format (expected WxH)"})
                   /\ ~Complains(e, {"Invalid resolution"})
            /\ (WellFormed(validate_ret.resolution) /\ ~ResolutionRule(validate_ret)) =>
                   /\ Complains(e, {"Invalid resolution"})
                   /\ ~Complains(e, {"Invalid resolution format (expected WxH)"})

\* An empty prompt, a duration over the maximum and a resolution that is no
\* WxH, in one call, have produced three complaints.
C15_Witness ==
    /\ validate_ret.called
    /\ validate_ret.prompt.len = 0
    /\ validate_ret.duration = 61
    /\ SceneRule(validate_ret)
    /\ validate_ret.resolution = <<"b", "a", "d">>
    /\ Len(validate_ret.result.error) = 5

(***************************************************************************)
(* Properties of cleanup, stated on the record of the last run: the        *)
(* directory before it, after its age pass, and as it is now.              *)
(***************************************************************************)
CutoffOf(run) == run.now - run.max_age_days

FilesOf(dir) == {n \in Names : dir[n].kind = "file"}

\* The files of the directory the run found that are older than its cutoff.
OldFiles(run) == {n \in FilesOf(run.before) : run.before[n].mtime < CutoffOf(run)}

\* C16: the age pass deletes every file of the output directory whose
\* modification time is older than now - max_age_days, and deletes no file
\* that is within the age window.
C16_AgePass ==
    last_cleanup.ran =>
        /\ last_cleanup.removed_age = OldFiles(last_cleanup)
        /\ \A n \in OldFiles(last_cleanup) : output_dir[n].kind = "absent"
        /\ \A n \in FilesOf(last_cleanup.before) \ OldFiles(last_cleanup) :
               last_cleanup.after_age[n] = last_cleanup.before[n]

\* A run has removed an old file and passed over a file exactly
\* max_age_days old.
C16_Witness ==
    /\ last_cleanup.ran
    /\ last_cleanup.removed_age # {}
    /\ \E n \in FilesOf(last_cleanup.after_age) :
           last_cleanup.before[n].mtime = CutoffOf(last_cleanup)

\* C17: if n > max_files files remain after the age pass, the count pass
\* deletes exactly n - max_files of them, none newer than a file it keeps;
\* if n <= max_files it deletes no file.
C17_CountPass ==
    last_cleanup.ran =>
        LET dir == last_cleanup.after_age
            files == FilesOf(dir)
            removed == last_cleanup.removed_count
        IN  IF Cardinality(files) > last_cleanup.max_files
            THEN /\ removed \subseteq files
                 /\ Cardinality(removed) = Cardinality(files) - last_cleanup.max_files
                 /\ \A d \in removed, f \in files \ removed : dir[d].mtime <= dir[f].mtime
            ELSE removed = {}

\* C18: a run that follows another run at once, with the same parameters
\* and no entry added in between, deletes nothing.
C18_Idempotent ==
    (last_cleanup.ran /\ last_cleanup.repeat) =>
        /\ last_cleanup.removed_age = {}
        /\ last_cleanup.removed_count = {}
        /\ output_dir = last_cleanup.before

\* The files the run had to delete whatever happens to other entries: the
\* old ones, and those with at least max_files newer files that stay.
MustGo(run) ==
    OldFiles(run) \cup
    {n \in FilesOf(run.before) :
        Cardinality({f \in FilesOf(run.before) \ OldFiles(run) :
                        /\ run.fault[f] \in {"none", "denied"}
                        /\ run.before[f].mtime > run.before[n].mtime}) >= run.max_files}

\* C19: when the handling of one file fails in a run, every other file that
\* qualifies for deletion is deleted all the same.
C19_BestEffort ==
    (/\ last_cleanup.ran
     /\ \E n \in FilesOf(last_cleanup.before) : last_cleanup.fault[n] # "none") =>
        \A n \in MustGo(last_cleanup) :
            last_cleanup.fault[n] = "none" => output_dir[n].kind = "absent"

\* C20: cleanup leaves the temp directory and the directories of the output
\* directory as they are, and a file that is within the age window and among
\* the max_files newest files stays, whatever else the directory holds.
C20_OnlyOwnFiles ==
    last_cleanup.ran =>
        /\ temp_dir = last_cleanup.temp_before
        /\ \A n \in Names : last_cleanup.before[n].kind = "dir" =>
               output_dir[n] = last_cleanup.before[n]
        /\ \A n \in FilesOf(last_cleanup.before) \ OldFiles(last_cleanup) :
               Cardinality({f \in FilesOf(last_cleanup.after_age) \ {n} :
                               last_cleanup.before[f].mtime >= last_cleanup.before[n].mtime})
                   < last_cleanup.max_files
               => output_dir[n] = last_cleanup.before[n]

(***************************************************************************)
(* Properties of generate_video's results.                                 *)
(***************************************************************************)
\* The call of thread t returns in this step.
Returns(t) == pc[t] = "finally" /\ pc'[t] = "idle"

\* C21: under concurrent generate_video calls, every artifact path returned on
\* success refers to a file that still exists in OUTPUT_DIR at the moment of
\* the return: no cleanup run by any job has removed it.
C21_ReturnedArtifactExists ==
    [][\A t \in Threads :
          Returns(t) /\ ret'[t].status.title = "Success"
              => Exists(output_dir', FileName(ret'[t].video))]_vars

(***************************************************************************)
(* Properties of get_safe_temp_path.                                       *)
(***************************************************************************)
\* C22: no two calls of get_safe_temp_path in one process return the same
\* path, however close in time they are.
C22_PathsDistinct ==
    \A i, j \in 1..Len(safe_paths) : i # j => safe_paths[i] # safe_paths[j]

(***************************************************************************)
(* Properties of error handling.                                           *)
(***************************************************************************)
\* Thread t handles the exception of its loader or engine in this step.
Handles(t) == pc[t] = "except" /\ pc'[t] = "finally"

\* add_music raises in this step of thread t.
MuxFails(t) ==
    pc[t] = "finalize" /\ pc'[t] = "finally" /\ req[t].music /\ ret'[t].audio = NoPath

\* Each failure adds one record and no other step adds any; the records
\* already in the log stay as they are.
AppendsOncePerFailure ==
    /\ Len(error_log') =
           Len(error_log) + (IF \E t \in Threads : Handles(t) \/ MuxFails(t) THEN 1 ELSE 0)
    /\ SubSeq(error_log', 1, Len(error_log)) = error_log

\* The context tag of a record tells which stage failed: no tag is used for
\* the failures of two stages.
TagIdentifiesStage(log, stages) ==
    \A i, j \in 1..Len(log) : log[i].context = log[j].context => stages[i] = stages[j]

\* C23: each failure of the loader, the engine or the muxer during a
\* generate_video call appends exactly one record to the error log, with a
\* context tag that identifies the stage that produced it, and records
\* already in the log are never modified or removed.
C23_LoggedOnceWithStage ==
    [][AppendsOncePerFailure /\ TagIdentifiesStage(error_log', raised_by')]_vars

\* The title of the kind an exception type is classified as; a type that
\* matches no specific kind is of the generic kind.
KindTitle(type) ==
    CASE type = "OutOfMemoryError" -> "Out of Memory"
      [] type = "RuntimeError" -> "Generation Error"
      [] type = "TimeoutError" -> "Timeout"
      [] OTHER -> "Unexpected Error"

\* C24: generate_video never propagates an exception: an exception is in
\* flight only inside the try block; the step that handles a failure of the
\* loader or the engine, of any type, clears it and builds a status message
\* of the kind the type is classified as (the generic unexpected-error kind
\* when no specific kind matches), with a null artifact when it was the
\* loader that failed; a failure of the muxer leaves no exception in flight;
\* and the call returns exactly the result so built.
C24_NeverPropagates ==
    [][\A t \in Threads :
          /\ exc'[t] # NoExc => pc'[t] = "except"
          /\ Handles(t) =>
                /\ exc'[t] = NoExc
                /\ ret'[t].status.title = KindTitle(exc[t].type)
                /\ ret'[t].status.message # <<>>
                /\ FailedStage(t) = "loader" => ret'[t].video = NoPath
          /\ MuxFails(t) => exc'[t] = NoExc /\ ret'[t].status.message # <<>>
          /\ Returns(t) => ret'[t] = ret[t]]_vars

\* One call has returned the generic kind for an engine error of no specific
\* type, another has returned a null artifact after the loader failed.
C24_Witness ==
    \E t, u \in Threads :
        /\ pc[t] = "idle" /\ ret[t].status.title = "Unexpected Error"
        /\ "engine" \in invoked[t]
        /\ pc[u] = "idle" /\ ret[u].status.title = "Generation Error"
        /\ invoked[u] = {"loader"} /\ ret[u].video = NoPath

\* C25: the technical-details block is in a message returned to the caller
\* only when the debug flag is enabled: with DEBUG_MODE off, no result of
\* generate_video carries technical details, whatever the kind of the error.
C25_TechnicalOnlyInDebug ==
    ~DEBUG_MODE => \A t \in Threads : ret[t].status.technical = <<>>

\* add_music raised in this step of thread t: the step logs its failure.
MuxRaised(t) ==
    /\ pc[t] = "finalize" /\ pc'[t] = "finally"
    /\ Len(raised_by') = Len(raised_by) + 1
    /\ raised_by'[Len(raised_by')] = "muxer"

\* C26: a failure of the muxer is not fatal: when music is supplied and
\* add_music raises, the result of the job is the success status, the silent
\* video the engine produced and a null audio path.
C26_MuxFailureNotFatal ==
    [][\A t \in Threads :
          MuxRaised(t) =>
              /\ req[t].music
              /\ ret'[t].status = SuccessStatus(model_name[t])
              /\ ret'[t].video = video_path[t]
              /\ ret'[t].video.kind = "video"
              /\ ret'[t].audio = NoPath]_vars

\* A call with music has returned the silent video after add_music raised.
C26_Witness ==
    \E t \in Threads :
        /\ pc[t] = "idle" /\ req[t].music /\ "muxer" \in invoked[t]
        /\ ret[t].status.title = "Success"
        /\ ret[t].video.kind = "video" /\ ret[t].audio = NoPath
        /\ \E i \in 1..Len(error_log) : error_log[i].context = "music_integration"

PartialSavedWarning ==
    <<"Video generation ran out of GPU memory. A partial video was saved.">>
RetryWithLess ==
    <<"Video generation requires more GPU memory. Try reducing resolution or duration.">>

\* C27: when the engine runs out of memory, the job returns the partial
\* output the engine exposed to it, with the warning that a partial video
\* was saved; when the engine exposed none, the job fails with a null
\* artifact and the out-of-memory message that asks to retry with less.
C27_PartialRecovery ==
    [][\A t \in Threads :
          Handles(t) /\ exc[t].type = "OutOfMemoryError" =>
              /\ ret'[t].status.title = "Out of Memory"
              /\ IF exc[t].partial # NoPath
                 THEN /\ ret'[t].video = exc[t].partial
                      /\ ret'[t].status.message = PartialSavedWarning
                 ELSE /\ ret'[t].video = NoPath
                      /\ ret'[t].status.message = RetryWithLess]_vars

\* C28: every execution of an admitted job, whether generation succeeds or
\* fails, has run cleanup by the time its result is returned to the caller.
C28_CleanupBeforeReturn ==
    [][\A t \in Threads : Returns(t) => "cleanup" \in invoked[t]]_vars

(***************************************************************************)
(* The pipeline end to end.                                                *)
(***************************************************************************)
TierNames == {fallback_chain[i] : i \in 1..Len(fallback_chain)}

\* C29: a valid submission (prompt "ocean sunset", duration 5, resolution
\* "512x512", scene count 1) against a queue that is not full passes
\* validation and is admitted; once the loader has returned some tier and the
\* engine an artifact path, retention runs without error and the call returns
\* a non-null artifact path with the success status naming that tier.
C29_EndToEnd ==
    [][\A t \in Threads :
          /\ (ncalls'[t] # ncalls[t] /\ req'[t] = ValidRequest /\ ~full(job_queue))
                => pc'[t] = "put"
          /\ (pc[t] = "put" /\ pc'[t] # "put" /\ ~full(job_queue))
                => /\ pc'[t] = "load"
                   /\ job_queue' = Append(job_queue, job[t])
          /\ (pc[t] = "finalize" /\ pc'[t] # "finalize")
                => /\ model_name[t] \in TierNames /\ video_path[t] # NoPath
                   /\ invoked'[t] = {"loader", "engine", "cleanup"}
                   /\ last_cleanup'.ran /\ ~last_cleanup'.aborted
                   /\ ret'[t] = [video |-> video_path[t], audio |-> NoPath,
                                 status |-> [title |-> "Success",
                                             message |-> <<"Video generated successfully using">>,
                                             tier |-> model_name[t], technical |-> <<>>]]
          /\ (Returns(t) /\ video_path[t] # NoPath)
                => ret'[t] = ret[t] /\ ret'[t].video # NoPath]_vars

\* A valid call has returned its video with the success status naming a tier
\* other than the first of the chain.
C29_Witness ==
    \E t \in Threads :
        /\ pc[t] = "idle" /\ req[t] = ValidRequest
        /\ invoked[t] = {"loader", "engine", "cleanup"}
        /\ ret[t].video.kind = "video" /\ ret[t].status.title = "Success"
        /\ ret[t].status.tier \in TierNames \ {fallback_chain[1]}
        /\ Exists(output_dir, FileName(ret[t].video))

(***************************************************************************)
(* Locking.                                                                *)
(***************************************************************************)
\* Thread t is in the part of generate_video that runs the loader, the
\* engine, the muxer and cleanup, or handles their failure.
LongRunning(t) == pc[t] \in {"load", "loaded", "finalize", "except"}

\* C30: long-running work runs outside every lock: a thread that holds
\* job_lock is in its finally clause and nowhere else, so no thread holds
\* the lock while its loader, engine, muxer or cleanup runs, and while a
\* thread is in that work a cancel request can be served.
C30_WorkOutsideLocks ==
    /\ \A t \in Threads : job_lock = t => pc[t] = "locked"
    /\ \A t \in Threads : LongRunning(t) => job_lock # t
    /\ \A t \in Threads :
           LongRunning(t) => \A i \in CancelIds : ENABLED CancelJob(i)

\* One thread holds job_lock in its finally clause while the other is in
\* its long-running work.
C30_Witness ==
    \E t, u \in Threads : job_lock = t /\ pc[t] = "locked" /\ LongRunning(u)

(***************************************************************************)
(* Identity of jobs and artifacts.                                         *)
(***************************************************************************)
\* C31: job ids are collision-free within the process: any two jobs admitted
\* to the queue have different job ids, also when they were submitted within
\* the same millisecond or concurrently.
C31_JobIdsDistinct ==
    \A i, j \in 1..Len(job_queue) :
        i # j => job_queue[i].job_id # job_queue[j].job_id

\* C32: artifact paths are unique: two generations whose videos are both
\* written and not yet returned never hold the same output path, also when
\* they complete within the same clock second or run concurrently.
C32_ArtifactPathsDistinct ==
    \A t, u \in Threads :
        /\ t # u
        /\ pc[t] = "finalize"
        /\ pc[u] = "finalize"
        => FileName(video_path[t]) # FileName(video_path[u])

(***************************************************************************)
(* Tracking of executing jobs.                                             *)
(***************************************************************************)
\* The pending and active counts that get_queue_status reports.
StatusPending == get_status(job_queue, queue_manager_active_jobs)[2]
StatusActive == get_status(job_queue, queue_manager_active_jobs)[4]

\* C33: while a job is executed by the pipeline it is a key of the map that
\* status and cancel consult, and status reports as active the number of
\* jobs that are executing.
C33_ExecutingIsTracked ==
    /\ \A t \in Threads :
           Executing(t) => IsTracked(queue_manager_active_jobs, job[t].job_id)
    /\ StatusPending = Len(admitted) - Len(dequeued)
    /\ StatusActive = Cardinality({t \in Threads : Executing(t)})

(***************************************************************************)
(* Draining of the pending queue.                                          *)
(***************************************************************************)
\* C34: every admitted job leaves the pending queue: once all started
\* executions have ended the pending count is 0, so the queue is never full
\* while no execution is under way.
C34_QueueDrained ==
    (\A t \in Threads : pc[t] = "idle") => Len(job_queue) = 0

(***************************************************************************)
(* Ownership of partial artifacts.                                         *)
(***************************************************************************)
\* C35: a partial artifact returned for a job was produced by that same job:
\* the handler of a failed job never returns a partial path that another
\* job's generation left behind.
C35_PartialIsOwn ==
    [][\A t \in Threads :
          Handles(t) /\ ret'[t].video.kind = "partial" =>
              ret'[t].video.ts = job[t].obj]_vars

=============================================================================
